---- MODULE Spec2Model ----
(***************************************************************************)
(* Model of the Tauri backend of the radial-menu builder                   *)
(* (src-tauri/src/main.rs): the seven bridge commands acting on a file     *)
(* system.  Text is modelled character by character: a Rust String is a    *)
(* sequence of one-character strings, so that serde_json's writer and      *)
(* reader, str::trim, Path::extension and the byte order of String are     *)
(* computed rather than assumed.                                           *)
(***************************************************************************)
EXTENDS Integers, Sequences, FiniteSets, TLC

(***************************************************************************)
(* Characters                                                              *)
(***************************************************************************)
QUOTE == "\""
BSLASH == "\\"
NL == "\n"
TAB == "\t"
CR == "\r"
FF == "\f"
SP == " "

\* The white space serde_json skips between tokens.
JsonWs == {SP, NL, TAB, CR}

\* The characters str::trim removes at both ends (White_Space of the alphabet).
TrimWs == {SP, NL, TAB, CR, FF}

Digits == {"0", "1", "2", "3", "4", "5", "6", "7", "8", "9"}

\* Control characters serde_json refuses unescaped inside a string.
Controls == {NL, TAB, CR, FF}

(***************************************************************************)
(* serde_json::to_string_pretty                                            *)
(***************************************************************************)
\* A writer that copies every character as it is.
EscapeCharRaw(c) == <<c>>

\* The escape the writer emits for one character of a string.
EscapeChar(c) ==
    IF c = QUOTE THEN <<BSLASH, QUOTE>>
    ELSE IF c = BSLASH THEN <<BSLASH, BSLASH>>
    ELSE IF c = NL THEN <<BSLASH, "n">>
    ELSE IF c = TAB THEN <<BSLASH, "t">>
    ELSE IF c = CR THEN <<BSLASH, "r">>
    ELSE IF c = FF THEN <<BSLASH, "f">>
    ELSE <<c>>

RECURSIVE EscapeStr(_)
EscapeStr(s) == IF s = <<>> THEN <<>> ELSE EscapeChar(Head(s)) \o EscapeStr(Tail(s))

\* A JSON string literal.
JsonString(s) == <<QUOTE>> \o EscapeStr(s) \o <<QUOTE>>

\* n levels of the pretty printer's two-space indentation.
RECURSIVE Indent(_)
Indent(n) == IF n = 0 THEN <<>> ELSE <<SP, SP>> \o Indent(n - 1)

K_name == <<"n", "a", "m", "e">>
K_command == <<"c", "o", "m", "m", "a", "n", "d">>
K_items == <<"i", "t", "e", "m", "s">>
K_icon == <<"i", "c", "o", "n">>
K_label == <<"l", "a", "b", "e", "l">>

\* One "key": "value" member line at indentation n (without separator).
Member(n, key, s) == Indent(n) \o JsonString(key) \o <<":", SP>> \o JsonString(s)

\* struct MenuItem, written as an element of the items array (depth 2).
SerItem(it) ==
    Indent(2) \o <<"{", NL>>
    \o Member(3, K_command, it.command) \o <<",", NL>>
    \o Member(3, K_icon, it.icon) \o <<",", NL>>
    \o Member(3, K_label, it.label) \o <<NL>>
    \o Indent(2) \o <<"}">>

RECURSIVE SerItems(_)
SerItems(items) ==
    IF items = <<>> THEN <<>>
    ELSE SerItem(Head(items))
         \o (IF Len(items) > 1 THEN <<",", NL>> ELSE <<NL>>)
         \o SerItems(Tail(items))

\* serde_json::to_string_pretty(&menu) for struct RadialMenu.
SerMenu(m) ==
    <<"{", NL>>
    \o Member(1, K_name, m.name) \o <<",", NL>>
    \o Member(1, K_command, m.command) \o <<",", NL>>
    \o Indent(1) \o JsonString(K_items) \o <<":", SP>>
    \o (IF m.items = <<>> THEN <<"[", "]">>
        ELSE <<"[", NL>> \o SerItems(m.items) \o Indent(1) \o <<"]">>)
    \o <<NL, "}">>

(***************************************************************************)
(* serde_json::from_str: the reader                                        *)
(* A parse result is [ok, v, i]: success, the value read, the index of the *)
(* first character not consumed.  A value is [t, s, e]: its type, its text *)
(* (string, number, literal) and its elements (array: values; object:      *)
(* [k, v] members in source order).                                        *)
(***************************************************************************)
Fail == [ok |-> FALSE, v |-> <<>>, i |-> 0]
Got(v, i) == [ok |-> TRUE, v |-> v, i |-> i]
Val(t, s, e) == [t |-> t, s |-> s, e |-> e]

RECURSIVE SkipWs(_, _)
SkipWs(s, i) == IF i <= Len(s) /\ s[i] \in JsonWs THEN SkipWs(s, i + 1) ELSE i

\* The character an escape sequence \c stands for ("" when it is none).
Unescape(c) ==
    IF c = QUOTE THEN QUOTE
    ELSE IF c = BSLASH THEN BSLASH
    ELSE IF c = "/" THEN "/"
    ELSE IF c = "n" THEN NL
    ELSE IF c = "t" THEN TAB
    ELSE IF c = "r" THEN CR
    ELSE IF c = "f" THEN FF
    ELSE ""

\* The rest of a string literal, from index i (after the opening quote).
RECURSIVE ParseStrBody(_, _, _)
ParseStrBody(s, i, acc) ==
    IF i > Len(s) THEN Fail
    ELSE IF s[i] = QUOTE THEN Got(Val("str", acc, <<>>), i + 1)
    ELSE IF s[i] = BSLASH THEN
        IF i + 1 > Len(s) \/ Unescape(s[i + 1]) = "" THEN Fail
        ELSE ParseStrBody(s, i + 2, Append(acc, Unescape(s[i + 1])))
    ELSE IF s[i] \in Controls THEN Fail
    ELSE ParseStrBody(s, i + 1, Append(acc, s[i]))

RECURSIVE SkipDigits(_, _)
SkipDigits(s, i) == IF i <= Len(s) /\ s[i] \in Digits THEN SkipDigits(s, i + 1) ELSE i

\* An integer number: -? (0 | [1-9][0-9]*).
ParseNumber(s, i) ==
    LET j == IF s[i] = "-" THEN i + 1 ELSE i
    IN  IF j > Len(s) \/ s[j] \notin Digits THEN Fail
        ELSE LET k == IF s[j] = "0" THEN j + 1 ELSE SkipDigits(s, j)
             IN  IF k <= Len(s) /\ s[k] \in Digits THEN Fail
                 ELSE Got(Val("num", SubSeq(s, i, k - 1), <<>>), k)

L_true == <<"t", "r", "u", "e">>
L_false == <<"f", "a", "l", "s", "e">>
L_null == <<"n", "u", "l", "l">>

ParseLiteral(s, i, lit) ==
    IF i + Len(lit) - 1 <= Len(s) /\ SubSeq(s, i, i + Len(lit) - 1) = lit
    THEN Got(Val("lit", lit, <<>>), i + Len(lit))
    ELSE Fail

RECURSIVE ParseValue(_, _)
RECURSIVE ParseElements(_, _, _)
RECURSIVE ParseMembers(_, _, _)

\* The elements of an array after "[" (or after a comma), up to "]".
ParseElements(s, i, acc) ==
    LET r == ParseValue(s, i)
    IN  IF ~r.ok THEN Fail
        ELSE LET j == SkipWs(s, r.i)
             IN  IF j > Len(s) THEN Fail
                 ELSE IF s[j] = "]" THEN Got(Val("arr", <<>>, Append(acc, r.v)), j + 1)
                 ELSE IF s[j] = "," THEN ParseElements(s, j + 1, Append(acc, r.v))
                 ELSE Fail

\* The members of an object after "{" (or after a comma), up to "}".
ParseMembers(s, i, acc) ==
    LET j == SkipWs(s, i)
    IN  IF j > Len(s) \/ s[j] # QUOTE THEN Fail
        ELSE LET k == ParseStrBody(s, j + 1, <<>>)
             IN  IF ~k.ok THEN Fail
                 ELSE LET c == SkipWs(s, k.i)
                      IN  IF c > Len(s) \/ s[c] # ":" THEN Fail
                          ELSE LET r == ParseValue(s, c + 1)
                               IN  IF ~r.ok THEN Fail
                                   ELSE LET d == SkipWs(s, r.i)
                                            m == Append(acc, [k |-> k.v.s, v |-> r.v])
                                        IN  IF d > Len(s) THEN Fail
                                            ELSE IF s[d] = "}" THEN Got(Val("obj", <<>>, m), d + 1)
                                            ELSE IF s[d] = "," THEN ParseMembers(s, d + 1, m)
                                            ELSE Fail

\* One JSON value starting at or after index i.
ParseValue(s, i) ==
    LET j == SkipWs(s, i)
    IN  IF j > Len(s) THEN Fail
        ELSE IF s[j] = QUOTE THEN ParseStrBody(s, j + 1, <<>>)
        ELSE IF s[j] = "{" THEN
            LET k == SkipWs(s, j + 1)
            IN  IF k <= Len(s) /\ s[k] = "}" THEN Got(Val("obj", <<>>, <<>>), k + 1)
                ELSE ParseMembers(s, j + 1, <<>>)
        ELSE IF s[j] = "[" THEN
            LET k == SkipWs(s, j + 1)
            IN  IF k <= Len(s) /\ s[k] = "]" THEN Got(Val("arr", <<>>, <<>>), k + 1)
                ELSE ParseElements(s, j + 1, <<>>)
        ELSE IF s[j] = "t" THEN ParseLiteral(s, j, L_true)
        ELSE IF s[j] = "f" THEN ParseLiteral(s, j, L_false)
        ELSE IF s[j] = "n" THEN ParseLiteral(s, j, L_null)
        ELSE IF s[j] = "-" \/ s[j] \in Digits THEN ParseNumber(s, j)
        ELSE Fail

\* A whole document: one value, then nothing but white space.
ParseJson(s) ==
    LET r == ParseValue(s, 1)
    IN  IF r.ok /\ SkipWs(s, r.i) > Len(s) THEN r ELSE Fail

(***************************************************************************)
(* Deserialize: the derived impls for String, MenuItem, RadialMenu and     *)
(* HashMap<String, String>, applied to a value that was read.              *)
(***************************************************************************)
Err(msg) == [ok |-> FALSE, v |-> msg]
Ok(v) == [ok |-> TRUE, v |-> v]

\* The indices of the members of an object whose key is key.
Indices(members, key) == {n \in 1..Len(members) : members[n].k = key}

\* A struct field of type String read from an object: the key occurs once
\* (a second occurrence is serde's duplicate_field) and holds a string.
HasStr(members, key) ==
    /\ Cardinality(Indices(members, key)) = 1
    /\ \A n \in Indices(members, key) : members[n].v.t = "str"

Field(members, key) == members[CHOOSE n \in Indices(members, key) : TRUE].v

\* struct MenuItem { command, icon, label }: from a map (unknown keys are
\* ignored) or from a sequence of exactly three strings.
IsItem(v) ==
    \/ /\ v.t = "obj"
       /\ HasStr(v.e, K_command) /\ HasStr(v.e, K_icon) /\ HasStr(v.e, K_label)
    \/ /\ v.t = "arr"
       /\ Len(v.e) = 3
       /\ \A n \in 1..3 : v.e[n].t = "str"

DeItem(v) ==
    IF v.t = "obj"
    THEN [command |-> Field(v.e, K_command).s, icon |-> Field(v.e, K_icon).s,
          label |-> Field(v.e, K_label).s]
    ELSE [command |-> v.e[1].s, icon |-> v.e[2].s, label |-> v.e[3].s]

\* Vec<MenuItem>: an array whose elements are items, in the order written.
IsItems(v) == v.t = "arr" /\ \A n \in 1..Len(v.e) : IsItem(v.e[n])

DeItems(v) == [n \in 1..Len(v.e) |-> DeItem(v.e[n])]

\* struct RadialMenu { name, command, items }.
IsMenu(v) ==
    \/ /\ v.t = "obj"
       /\ HasStr(v.e, K_name) /\ HasStr(v.e, K_command)
       /\ Cardinality(Indices(v.e, K_items)) = 1
       /\ IsItems(Field(v.e, K_items))
    \/ /\ v.t = "arr"
       /\ Len(v.e) = 3
       /\ v.e[1].t = "str" /\ v.e[2].t = "str" /\ IsItems(v.e[3])

DeMenu(v) ==
    IF v.t = "obj"
    THEN [name |-> Field(v.e, K_name).s, command |-> Field(v.e, K_command).s,
          items |-> DeItems(Field(v.e, K_items))]
    ELSE [name |-> v.e[1].s, command |-> v.e[2].s, items |-> DeItems(v.e[3])]

\* serde_json::from_str::<RadialMenu>(&content)
MenuFromStr(content) ==
    LET r == ParseJson(content)
    IN  IF r.ok /\ IsMenu(r.v) THEN Ok(DeMenu(r.v)) ELSE Err("parse")

\* A map that takes values of any type.
IsCatalogAnyValue(v) == v.t = "obj"

\* HashMap<String, String>: an object all of whose values are strings; a
\* key written twice keeps the value written last.
IsCatalog(v) == v.t = "obj" /\ \A n \in 1..Len(v.e) : v.e[n].v.t = "str"

Max(S) == CHOOSE x \in S : \A y \in S : y <= x

DeCatalog(v) ==
    [key \in {v.e[n].k : n \in 1..Len(v.e)} |-> v.e[Max(Indices(v.e, key))].v.s]

\* serde_json::from_str::<HashMap<String, String>>(&content)
CatalogFromStr(content) ==
    LET r == ParseJson(content)
    IN  IF r.ok /\ IsCatalog(r.v) THEN Ok(DeCatalog(r.v)) ELSE Err("parse")

(***************************************************************************)
(* Paths.  A path argument is a string; the file system resolves it to a   *)
(* canonical path, the sequence of its components from the root.           *)
(***************************************************************************)
\* The working directory of the process, /w.
Cwd == << <<"w">> >>

\* The components of p between separators, from index i on; cur is the
\* component being read.
RECURSIVE SplitPath(_, _, _, _)
SplitPath(p, i, cur, acc) ==
    LET flushed == IF cur = <<>> THEN acc ELSE Append(acc, cur)
    IN  IF i > Len(p) THEN flushed
        ELSE IF p[i] = "/" THEN SplitPath(p, i + 1, <<>>, flushed)
        ELSE SplitPath(p, i + 1, Append(cur, p[i]), acc)

\* Follow the components from base: "." stays, ".." goes to the parent.
RECURSIVE Walk(_, _)
Walk(comps, base) ==
    IF comps = <<>> THEN base
    ELSE IF Head(comps) = <<".">> THEN Walk(Tail(comps), base)
    ELSE IF Head(comps) = <<".", ".">>
         THEN Walk(Tail(comps), IF base = <<>> THEN base ELSE SubSeq(base, 1, Len(base) - 1))
    ELSE Walk(Tail(comps), Append(base, Head(comps)))

\* The canonical path a path string names (the empty string names none;
\* the callers test for it).
Resolve(p) ==
    Walk(SplitPath(p, 1, <<>>, <<>>), IF p # <<>> /\ p[1] = "/" THEN <<>> ELSE Cwd)

Parent(cp) == SubSeq(cp, 1, Len(cp) - 1)

\* PathBuf::join for a relative second part.
Join(dir, name) == dir \o <<"/">> \o name

(***************************************************************************)
(* The file system: a node for every canonical path of the universe.       *)
(* "bad" is a file that exists and whose content is not valid UTF-8, so    *)
(* that fs::read_to_string fails on it.                                    *)
(***************************************************************************)
VARIABLES
    fs,      \* canonical path -> node
    ioErr,   \* the directory entries whose record read_dir fails to read
    req,     \* the save_radial_menu requests in flight (concurrent runs)
    hist,    \* history: the last successful save_radials_directory
    last     \* the last bridge request and its response

vars == <<fs, ioErr, req, hist, last>>

NoNode == [k |-> "none", c |-> <<>>]
DirNode == [k |-> "dir", c |-> <<>>]
BadNode == [k |-> "bad", c |-> <<>>]
FileNode(c) == [k |-> "file", c |-> c]

NodeIn(f, cp) ==
    IF cp = <<>> THEN DirNode ELSE IF cp \in DOMAIN f THEN f[cp] ELSE NoNode

Node(cp) == NodeIn(fs, cp)

\* Path::exists
PathExists(p) == p # <<>> /\ Node(Resolve(p)).k # "none"

\* fs::read_to_string
ReadToString(p) ==
    IF p # <<>> /\ Node(Resolve(p)).k = "file"
    THEN Ok(Node(Resolve(p)).c)
    ELSE Err("read")

\* File::create can open p for writing: its parent is a directory and p
\* itself is no directory.
CanCreateIn(f, p) ==
    /\ p # <<>>
    /\ Resolve(p) \in DOMAIN f
    /\ NodeIn(f, Parent(Resolve(p))).k = "dir"
    /\ NodeIn(f, Resolve(p)).k # "dir"

CanCreate(p) == CanCreateIn(fs, p)

\* File::create: the file exists and is empty afterwards.
Truncate(f, p) == [f EXCEPT ![Resolve(p)] = FileNode(<<>>)]

\* write_all at offset 0 of an open file: the bytes written replace the
\* first bytes of the file and what lies behind them stays.
Overlay(old, data) ==
    IF Len(old) > Len(data) THEN data \o SubSeq(old, Len(data) + 1, Len(old)) ELSE data

WriteAt0(f, p, data) ==
    [f EXCEPT ![Resolve(p)] = FileNode(Overlay(NodeIn(f, Resolve(p)).c, data))]

\* fs::write(path, contents) = File::create(path)?.write_all(contents)
FsWrite(f, p, data) == WriteAt0(Truncate(f, p), p, data)

Prefixes(cp) == {SubSeq(cp, 1, n) : n \in 1..Len(cp)}

\* fs::create_dir_all succeeds: nothing on the way is a file.
CanCreateDirAll(p) ==
    /\ p # <<>>
    /\ \A a \in Prefixes(Resolve(p)) : a \in DOMAIN fs /\ Node(a).k \in {"none", "dir"}

CreateDirAll(f, p) ==
    [cp \in DOMAIN f |-> IF cp \in Prefixes(Resolve(p)) THEN DirNode ELSE f[cp]]

(***************************************************************************)
(* Requests and responses                                                  *)
(***************************************************************************)
NoDoc == [name |-> <<>>, command |-> <<>>, items |-> <<>>]
None == [some |-> FALSE, v |-> <<>>]
Some(v) == [some |-> TRUE, v |-> v]
Unit == <<>>

Response(op, path, doc, res) == [op |-> op, path |-> path, doc |-> doc, res |-> res]

\* No request has been made yet, or the file system changed since the last.
Quiet == Response("none", <<>>, NoDoc, Ok(Unit))

IdleReq == [pc |-> "idle", doc |-> NoDoc, path |-> <<>>, json |-> <<>>]
NoHist == [saved |-> FALSE, s |-> <<>>, ext |-> FALSE]

(***************************************************************************)
(* Menu file I/O                                                           *)
(***************************************************************************)
\* A save that first creates the missing directories above path.
save_radial_menu_mkdirs(menu, path) ==
    LET made == [cp \in DOMAIN fs |->
                    IF cp \in Prefixes(Parent(Resolve(path))) /\ fs[cp].k = "none"
                    THEN DirNode ELSE fs[cp]]
    IN  /\ fs' = FsWrite(made, path, SerMenu(menu))
        /\ last' = Response("save_radial_menu", path, menu, Ok(Unit))
        /\ UNCHANGED <<ioErr, req, hist>>

\* save_radial_menu(menu, path)
save_radial_menu(menu, path) ==
    LET json == SerMenu(menu)
    IN  /\ IF CanCreate(path)
           THEN /\ fs' = FsWrite(fs, path, json)
                /\ last' = Response("save_radial_menu", path, menu, Ok(Unit))
           ELSE /\ fs' = fs
                /\ last' = Response("save_radial_menu", path, menu, Err("Failed to write file"))
        /\ UNCHANGED <<ioErr, req, hist>>

\* The response of load_radial_menu(path).
LoadRadialMenu(path) ==
    LET content == ReadToString(path)
    IN  IF ~content.ok THEN Err("Failed to read file")
        ELSE LET menu == MenuFromStr(content.v)
             IN  IF ~menu.ok THEN Err("Failed to parse menu") ELSE Ok(menu.v)

\* load_radial_menu(path)
load_radial_menu(path) ==
    /\ last' = Response("load_radial_menu", path, NoDoc, LoadRadialMenu(path))
    /\ UNCHANGED <<fs, ioErr, req, hist>>

(***************************************************************************)
(* The universe of the model: the directories and files that can exist.    *)
(***************************************************************************)
N_w == <<"w">>
N_h == <<"h">>
N_r == <<"r">>
N_old == <<"o", "l", "d">>
N_cfg == <<"c", "f", "g">>
N_dist == <<"d", "i", "s", "t">>
N_commands_json == <<"c", "o", "m", "m", "a", "n", "d", "s", ".", "j", "s", "o", "n">>
N_marker == <<"r", "a", "d", "i", "a", "l", "s", "_", "d", "i", "r", "e", "c", "t", "o", "r", "y", ".", "t", "x", "t">>
N_m_json == <<"m", ".", "j", "s", "o", "n">>
N_a_json == <<"a", ".", "j", "s", "o", "n">>
N_B_json == <<"B", ".", "j", "s", "o", "n">>
N_c_JSON == <<"c", ".", "J", "S", "O", "N">>
N_b_txt == <<"b", ".", "t", "x", "t">>
N_sub == <<"s", "u", "b">>
N_s_json == <<"s", ".", "j", "s", "o", "n">>
N_n_json == <<"n", ".", "j", "s", "o", "n">>
N_dot_json == <<".", "j", "s", "o", "n">>

P_w == <<N_w>>
P_h == <<N_h>>
P_r == <<N_w, N_r>>
P_old == <<N_w, N_old>>
P_m == <<N_w, N_m_json>>
P_cfg == <<N_h, N_cfg>>
P_marker == <<N_h, N_cfg, N_marker>>
P_cat_dist == <<N_w, N_dist, N_commands_json>>
P_cat_up == <<N_dist, N_commands_json>>
P_cat_cwd == <<N_w, N_commands_json>>

\* The names an entry of the radials directory /w/r can have.
EntryNames == {N_a_json, N_B_json, N_c_JSON, N_b_txt, N_sub, N_s_json, N_dot_json}
Entries == {<<N_w, N_r, n>> : n \in EntryNames}
P_a == <<N_w, N_r, N_a_json>>

\* A file below the subdirectory sub of the radials directory.
P_nested == <<N_w, N_r, N_sub, N_n_json>>

AllPaths ==
    {P_w, P_h, P_r, P_old, P_m, P_cfg, P_marker, <<N_w, N_dist>>, <<N_dist>>,
     P_cat_dist, P_cat_up, P_cat_cwd, P_nested} \cup Entries

\* A fresh machine: the working directory and the home directory exist.
Init ==
    /\ fs = [cp \in AllPaths |-> IF cp \in {P_w, P_h} THEN DirNode ELSE NoNode]
    /\ ioErr = {}
    /\ req = [i \in {1, 2} |-> IdleReq]
    /\ hist = NoHist
    /\ last = Quiet

(***************************************************************************)
(* The environment: other programs and the user change the file system     *)
(* between two requests.                                                   *)
(***************************************************************************)
IsUnder(cp, dir) == Len(cp) >= Len(dir) /\ SubSeq(cp, 1, Len(dir)) = dir

Touches(cp) == IsUnder(P_marker, cp)

EnvHist(cp) == IF Touches(cp) THEN [hist EXCEPT !.ext = TRUE] ELSE hist

\* mkdir cp
EnvMkdir(cp) ==
    /\ Node(Parent(cp)).k = "dir"
    /\ Node(cp).k = "none"
    /\ fs' = [fs EXCEPT ![cp] = DirNode]
    /\ last' = Quiet
    /\ hist' = EnvHist(cp)
    /\ UNCHANGED <<ioErr, req>>

\* rm -r cp
EnvRemove(cp) ==
    /\ Node(cp).k # "none"
    /\ fs' = [x \in DOMAIN fs |-> IF IsUnder(x, cp) THEN NoNode ELSE fs[x]]
    /\ ioErr' = {x \in ioErr : ~IsUnder(x, cp)}
    /\ last' = Quiet
    /\ hist' = EnvHist(cp)
    /\ UNCHANGED req

\* Another program writes the file cp.
EnvPut(cp, node) ==
    /\ Node(Parent(cp)).k = "dir"
    /\ Node(cp).k # "dir"
    /\ Node(cp) # node
    /\ fs' = [fs EXCEPT ![cp] = node]
    /\ last' = Quiet
    /\ hist' = EnvHist(cp)
    /\ UNCHANGED <<ioErr, req>>

(***************************************************************************)
(* Menu documents of the model                                             *)
(***************************************************************************)
MaxItems == 2

T_plain == <<"a", SP, "b">>
T_tricky == <<QUOTE, BSLASH, NL>>

Item1 == [command |-> <<"x">>, icon |-> <<>>, label |-> T_tricky]
Item2 == [command |-> <<"y">>, icon |-> <<"i">>, label |-> <<"L">>]

ItemLists == UNION {[1..n -> {Item1, Item2}] : n \in 0..MaxItems}

Docs == [name : {T_tricky}, command : {T_plain}, items : ItemLists]

\* The path arguments of the menu requests: r/a.json (relative, its parent
\* may be missing) and /w/m.json.
A_ra == <<"r", "/", "a", ".", "j", "s", "o", "n">>
A_m == <<"/", "w", "/", "m", ".", "j", "s", "o", "n">>
MenuArgs == {A_ra, A_m}

\* What another program may leave in a menu file: {} or bytes that are no text.
J_empty_obj == <<"{", "}">>
MenuJunk == {BadNode, FileNode(J_empty_obj)}

NextMenu ==
    \/ \E menu \in Docs, path \in MenuArgs : save_radial_menu(menu, path)
    \/ \E path \in MenuArgs : load_radial_menu(path)
    \/ EnvMkdir(P_r)
    \/ \E cp \in {P_r, P_a, P_m} : EnvRemove(cp)
    \/ \E cp \in {P_a, P_m}, node \in MenuJunk : EnvPut(cp, node)

SpecMenu == Init /\ [][NextMenu]_vars

(***************************************************************************)
(* Two save_radial_menu requests dispatched at the same time.  fs::write   *)
(* is two system calls, open with truncation and write, and the calls of   *)
(* the two requests interleave.                                            *)
(***************************************************************************)
\* Request i serializes its menu and opens the file.
save_open(i, menu, path) ==
    /\ req[i].pc = "idle"
    /\ IF CanCreate(path)
       THEN /\ fs' = Truncate(fs, path)
            /\ req' = [req EXCEPT ![i] = [pc |-> "opened", doc |-> menu, path |-> path,
                                          json |-> SerMenu(menu)]]
            /\ last' = last
       ELSE /\ fs' = fs
            /\ req' = [req EXCEPT ![i] = [pc |-> "failed", doc |-> menu, path |-> path,
                                          json |-> <<>>]]
            /\ last' = Response("save_radial_menu", path, menu, Err("Failed to write file"))
    /\ UNCHANGED <<ioErr, hist>>

\* Request i writes its text through its own descriptor and returns Ok(()).
save_write(i) ==
    /\ req[i].pc = "opened"
    /\ fs' = WriteAt0(fs, req[i].path, req[i].json)
    /\ req' = [req EXCEPT ![i].pc = "done"]
    /\ last' = Response("save_radial_menu", req[i].path, req[i].doc, Ok(Unit))
    /\ UNCHANGED <<ioErr, hist>>

NextConc ==
    \/ \E i \in {1, 2}, menu \in Docs, path \in MenuArgs : save_open(i, menu, path)
    \/ \E i \in {1, 2} : save_write(i)
    \/ \E path \in MenuArgs : load_radial_menu(path)

SpecConc == Init /\ [][NextConc]_vars

(***************************************************************************)
(* Preference store                                                        *)
(***************************************************************************)
\* str::trim
RECURSIVE TrimStart(_)
TrimStart(s) == IF s # <<>> /\ Head(s) \in TrimWs THEN TrimStart(Tail(s)) ELSE s

RECURSIVE TrimEnd(_)
TrimEnd(s) ==
    IF s # <<>> /\ s[Len(s)] \in TrimWs THEN TrimEnd(SubSeq(s, 1, Len(s) - 1)) ELSE s

Trim(s) == TrimEnd(TrimStart(s))

\* app_handle.path().app_config_dir(): /h/cfg
AppConfigDir == <<"/", "h", "/", "c", "f", "g">>

\* app_dir.join("radials_directory.txt")
ConfigFile == Join(AppConfigDir, N_marker)

\* A save that keeps a marker file that is already there.
save_radials_directory_keep(path) ==
    /\ IF ~CanCreateDirAll(AppConfigDir) \/ ~CanCreateIn(CreateDirAll(fs, AppConfigDir), ConfigFile)
       THEN /\ fs' = fs
            /\ hist' = hist
            /\ last' = Response("save_radials_directory", path, NoDoc,
                                Err("Failed to save radials directory"))
       ELSE /\ fs' = IF Node(Resolve(ConfigFile)).k = "file"
                     THEN fs
                     ELSE FsWrite(CreateDirAll(fs, AppConfigDir), ConfigFile, path)
            /\ hist' = [saved |-> TRUE, s |-> path, ext |-> FALSE]
            /\ last' = Response("save_radials_directory", path, NoDoc, Ok(Unit))
    /\ UNCHANGED <<ioErr, req>>

\* save_radials_directory(path)
save_radials_directory(path) ==
    /\ IF ~CanCreateDirAll(AppConfigDir)
       THEN /\ fs' = fs
            /\ hist' = hist
            /\ last' = Response("save_radials_directory", path, NoDoc,
                                Err("Failed to create config directory"))
       ELSE LET made == CreateDirAll(fs, AppConfigDir)
            IN  IF ~CanCreateIn(made, ConfigFile)
                THEN /\ fs' = made
                     /\ hist' = hist
                     /\ last' = Response("save_radials_directory", path, NoDoc,
                                         Err("Failed to save radials directory"))
                ELSE /\ fs' = FsWrite(made, ConfigFile, path)
                     /\ hist' = [saved |-> TRUE, s |-> path, ext |-> FALSE]
                     /\ last' = Response("save_radials_directory", path, NoDoc, Ok(Unit))
    /\ UNCHANGED <<ioErr, req>>

\* A reader that returns the stored path without looking for it.
GetSavedUnchecked ==
    IF PathExists(ConfigFile)
    THEN LET content == ReadToString(ConfigFile)
         IN  IF ~content.ok THEN Err("Failed to read radials directory")
             ELSE Ok(Some(Trim(content.v)))
    ELSE Ok(None)

\* The response of get_saved_radials_directory().
GetSavedRadialsDirectory ==
    IF PathExists(ConfigFile)
    THEN LET content == ReadToString(ConfigFile)
         IN  IF ~content.ok THEN Err("Failed to read radials directory")
             ELSE LET path == Trim(content.v)
                  IN  IF PathExists(path) THEN Ok(Some(path)) ELSE Ok(None)
    ELSE Ok(None)

\* get_saved_radials_directory()
get_saved_radials_directory ==
    /\ last' = Response("get_saved_radials_directory", <<>>, NoDoc, GetSavedRadialsDirectory)
    /\ UNCHANGED <<fs, ioErr, req, hist>>

\* The strings the front end saves: /w/r, the same with white space around
\* it, /w/old and a blank.
A_r == <<"/", "w", "/", "r">>
A_r_padded == <<SP, "/", "w", "/", "r", NL>>
A_old == <<"/", "w", "/", "o", "l", "d">>
A_blank == <<SP>>
PrefArgs == {A_r, A_r_padded, A_old, A_blank}

NextPrefs ==
    \/ \E path \in PrefArgs : save_radials_directory(path)
    \/ get_saved_radials_directory
    \/ \E cp \in {P_r, P_old, P_cfg} : EnvMkdir(cp)
    \/ \E cp \in {P_r, P_old, P_cfg, P_marker} : EnvRemove(cp)
    \/ \E cp \in {P_cfg, P_marker} : EnvPut(cp, BadNode)

SpecPrefs == Init /\ [][NextPrefs]_vars

(***************************************************************************)
(* Directory listing                                                       *)
(***************************************************************************)
\* The position of the last "." of a name, 0 when it has none.
LastDot(name) == Max({n \in 1..Len(name) : name[n] = "."} \cup {0})

\* Path::extension of a path whose file name is name: the text after the
\* last ".", and none when there is no "." or only a leading one.
Extension(name) ==
    IF LastDot(name) <= 1 THEN None
    ELSE Some(SubSeq(name, LastDot(name) + 1, Len(name)))

X_json == <<"j", "s", "o", "n">>

\* The code points of the characters of the entry names.
CodePoint ==
    "." :> 46 @@ "B" :> 66 @@ "J" :> 74 @@ "N" :> 78 @@ "O" :> 79 @@ "S" :> 83
    @@ "a" :> 97 @@ "b" :> 98 @@ "c" :> 99 @@ "j" :> 106 @@ "n" :> 110
    @@ "o" :> 111 @@ "s" :> 115 @@ "t" :> 116 @@ "u" :> 117 @@ "x" :> 120

\* The order of String: byte by byte, a prefix before its extensions.
RECURSIVE StrLess(_, _)
StrLess(a, b) ==
    IF b = <<>> THEN FALSE
    ELSE IF a = <<>> THEN TRUE
    ELSE IF Head(a) # Head(b) THEN CodePoint[Head(a)] < CodePoint[Head(b)]
    ELSE StrLess(Tail(a), Tail(b))

\* Insert x into the sorted sequence xs.
RECURSIVE Insert(_, _)
Insert(x, xs) ==
    IF xs = <<>> THEN <<x>>
    ELSE IF StrLess(Head(xs), x) \/ Head(xs) = x THEN <<Head(xs)>> \o Insert(x, Tail(xs))
    ELSE <<x>> \o xs

\* files.sort()
RECURSIVE Sort(_)
Sort(xs) == IF xs = <<>> THEN <<>> ELSE Insert(Head(xs), Sort(Tail(xs)))

\* The entries of a directory: its existing children.
Children(dir) == {cp \in DOMAIN fs : Len(cp) = Len(dir) + 1 /\ IsUnder(cp, dir) /\ fs[cp].k # "none"}

\* The orders in which read_dir can yield the entries: any.
Orders(S) == {o \in [1..Cardinality(S) -> S] : \A a, b \in 1..Cardinality(S) : o[a] = o[b] => a = b}

\* A loop that gives up at the first entry it cannot read.
RECURSIVE CollectStrict(_)
CollectStrict(entries) ==
    IF entries = <<>> THEN Ok(<<>>)
    ELSE IF Head(entries) \in ioErr THEN Err("Failed to read directory")
    ELSE LET rest == CollectStrict(Tail(entries))
             name == Head(entries)[Len(Head(entries))]
         IN  IF ~rest.ok THEN rest
             ELSE IF Extension(name) = Some(X_json) THEN Ok(<<name>> \o rest.v)
             ELSE rest

\* The loop over the entries: an entry that is Ok and whose path has the
\* extension json adds its file name.
RECURSIVE Collect(_)
Collect(entries) ==
    IF entries = <<>> THEN Ok(<<>>)
    ELSE LET rest == Collect(Tail(entries))
             name == Head(entries)[Len(Head(entries))]
         IN  IF Head(entries) \notin ioErr /\ Extension(name) = Some(X_json)
             THEN Ok(<<name>> \o rest.v)
             ELSE rest

\* The response of list_json_files(directory) when read_dir yields the
\* entries in the order given.
ListJsonFiles(directory, order) ==
    IF ~PathExists(directory) THEN Err("Directory does not exist")
    ELSE IF Node(Resolve(directory)).k # "dir" THEN Err("Failed to read directory")
    ELSE LET files == Collect(order)
         IN  IF files.ok THEN Ok(Sort(files.v)) ELSE files

\* list_json_files(directory)
list_json_files(directory) ==
    /\ \E order \in Orders(Children(Resolve(directory))) :
          last' = Response("list_json_files", directory, NoDoc, ListJsonFiles(directory, order))
    /\ UNCHANGED <<fs, ioErr, req, hist>>

\* The record of an entry becomes unreadable.
EnvBreak(cp) ==
    /\ Node(cp).k # "none"
    /\ cp \notin ioErr
    /\ ioErr' = ioErr \cup {cp}
    /\ last' = Quiet
    /\ UNCHANGED <<fs, req, hist>>

MaxEntries == 3

\* The directories among the entry names; the others are files.
DirNames == {N_sub, N_s_json}
FileEntries == {cp \in Entries : cp[Len(cp)] \notin DirNames}
DirEntries == {cp \in Entries : cp[Len(cp)] \in DirNames}

A_a == <<"/", "w", "/", "r", "/", "a", ".", "j", "s", "o", "n">>
ListArgs == {A_r, A_a, A_old}

NextList ==
    \/ \E directory \in ListArgs : list_json_files(directory)
    \/ EnvMkdir(P_r)
    \/ \E cp \in DirEntries : Cardinality(Children(P_r)) < MaxEntries /\ EnvMkdir(cp)
    \/ \E cp \in FileEntries : Cardinality(Children(P_r)) < MaxEntries /\ EnvPut(cp, FileNode(<<>>))
    \/ EnvPut(P_nested, FileNode(<<>>))
    \/ \E cp \in Entries : EnvRemove(cp)
    \/ \E cp \in Entries : EnvBreak(cp)

SpecList == Init /\ [][NextList]_vars

(***************************************************************************)
(* Command catalog                                                         *)
(***************************************************************************)
possible_paths ==
    << <<"d", "i", "s", "t", "/", "c", "o", "m", "m", "a", "n", "d", "s", ".", "j", "s", "o", "n">>,
       <<".", "/", "d", "i", "s", "t", "/", "c", "o", "m", "m", "a", "n", "d", "s", ".", "j", "s", "o", "n">>,
       <<".", ".", "/", "d", "i", "s", "t", "/", "c", "o", "m", "m", "a", "n", "d", "s", ".", "j", "s", "o", "n">>,
       <<"c", "o", "m", "m", "a", "n", "d", "s", ".", "j", "s", "o", "n">> >>

\* The hardcoded fallback commands.
Fallback ==
    <<"c", "o", "m", "m", "a", "n", "d", ":", "a", "l", "i", "g", "n">> :> <<"a", "l", "i", "g", "n">>
    @@ <<"c", "o", "m", "m", "a", "n", "d", ":", "b", "o", "o", "l", "e", "a", "n">> :> <<"b", "o", "o", "l", "e", "a", "n">>

\* A loop that ends the call when a candidate does not parse.
RECURSIVE TryPathsStrict(_)
TryPathsStrict(paths) ==
    IF paths = <<>> THEN Ok(Fallback)
    ELSE LET content == ReadToString(Head(paths))
         IN  IF content.ok
             THEN LET commands == CatalogFromStr(content.v)
                  IN  IF commands.ok THEN Ok(commands.v)
                      ELSE Err("Failed to parse commands")
             ELSE TryPathsStrict(Tail(paths))

\* The loop over the candidate paths, then the fallback.
RECURSIVE TryPaths(_)
TryPaths(paths) ==
    IF paths = <<>> THEN Ok(Fallback)
    ELSE LET content == ReadToString(Head(paths))
         IN  IF content.ok
             THEN LET commands == CatalogFromStr(content.v)
                  IN  IF commands.ok THEN Ok(commands.v) ELSE TryPaths(Tail(paths))
             ELSE TryPaths(Tail(paths))

\* load_commands()
load_commands ==
    /\ last' = Response("load_commands", <<>>, NoDoc, TryPaths(possible_paths))
    /\ UNCHANGED <<fs, ioErr, req, hist>>

\* A loader that reports every failure as a failure to read.
LoadCommandsFromFileOneError(path) ==
    LET content == ReadToString(path)
    IN  IF content.ok /\ CatalogFromStr(content.v).ok
        THEN Ok(CatalogFromStr(content.v).v)
        ELSE Err("Failed to read file")

\* The response of load_commands_from_file(path).
LoadCommandsFromFile(path) ==
    LET content == ReadToString(path)
    IN  IF content.ok
        THEN LET commands == CatalogFromStr(content.v)
             IN  IF commands.ok THEN Ok(commands.v)
                 ELSE Err("Failed to parse commands file")
        ELSE Err("Failed to read file")

\* load_commands_from_file(path)
load_commands_from_file(path) ==
    /\ last' = Response("load_commands_from_file", path, NoDoc, LoadCommandsFromFile(path))
    /\ UNCHANGED <<fs, ioErr, req, hist>>

\* What a commands.json of the model holds.
Cat_ab == <<"{", QUOTE, "a", QUOTE, ":", QUOTE, "b", QUOTE, "}">>
Cat_cd == <<"{", SP, QUOTE, "c", QUOTE, ":", SP, QUOTE, "d", QUOTE, SP, "}", NL>>
Cat_dup == <<"{", QUOTE, "a", QUOTE, ":", QUOTE, "b", QUOTE, ",", QUOTE, "a", QUOTE, ":", QUOTE, "d", QUOTE, "}">>
Cat_num == <<"{", QUOTE, "a", QUOTE, ":", "1", "}">>
Cat_arr == <<"[", QUOTE, "a", QUOTE, "]">>
Cat_cut == <<"{", QUOTE, "a", QUOTE, ":">>
CatTexts == {Cat_ab, Cat_cd, Cat_dup, Cat_num, Cat_arr, Cat_cut}
CatNodes == {BadNode} \cup {FileNode(c) : c \in CatTexts}

CatFiles == {P_cat_dist, P_cat_up, P_cat_cwd}
CatArgs == {possible_paths[2], possible_paths[3], possible_paths[4]}

NextCatalog ==
    \/ load_commands
    \/ \E path \in CatArgs : load_commands_from_file(path)
    \/ \E cp \in {<<N_w, N_dist>>, <<N_dist>>} : EnvMkdir(cp)
    \/ \E cp \in CatFiles, node \in CatNodes : EnvPut(cp, node)
    \/ \E cp \in CatFiles : EnvRemove(cp)

SpecCatalog == Init /\ [][NextCatalog]_vars

(***************************************************************************)
(* Claims about menu file I/O                                              *)
(***************************************************************************)
\* C1: a successful save_radial_menu(D, P) directly followed by
\* load_radial_menu(P) makes the load succeed and return a document equal
\* to D, items in the same order.
C1_RoundTrip ==
    [][(/\ last.op = "save_radial_menu" /\ last.res.ok
        /\ last'.op = "load_radial_menu" /\ last'.path = last.path)
       => (last'.res.ok /\ last'.res.v = last.doc)]_vars

\* A load returned a document of two different items whose texts need escapes.
C1_Witness ==
    /\ last.op = "load_radial_menu" /\ last.res.ok
    /\ last.res.v.name = T_tricky
    /\ Len(last.res.v.items) = 2
    /\ last.res.v.items[1] # last.res.v.items[2]

\* The parent directory of the file a path string names.
ParentNode(path) == Node(Parent(Resolve(path)))

\* C7 as stated: a save to a path whose parent directory is missing (and
\* could be created) succeeds and leaves a file at the path holding D.
C7_CreatesParents ==
    [][(/\ last'.op = "save_radial_menu"
        /\ ParentNode(last'.path).k = "none"
        /\ Node(Parent(Parent(Resolve(last'.path)))).k = "dir")
       => (/\ last'.res.ok
           /\ NodeIn(fs', Resolve(last'.path)) = FileNode(SerMenu(last'.doc)))]_vars

\* C7 amended: save_radial_menu creates no directory.  With the parent of P
\* missing the save fails with the write error and changes nothing; with the
\* parent present (and P no directory) it succeeds, P holds the text of D and
\* nothing else changes.
C7_NoParentNoSave ==
    [][last'.op = "save_radial_menu"
       => IF ParentNode(last'.path).k = "dir" /\ Node(Resolve(last'.path)).k # "dir"
          THEN /\ last'.res.ok
               /\ fs' = [fs EXCEPT ![Resolve(last'.path)] = FileNode(SerMenu(last'.doc))]
          ELSE /\ ~last'.res.ok
               /\ last'.res.v = "Failed to write file"
               /\ fs' = fs]_vars

\* A save was refused because the parent directory of its path is missing.
C7_Witness ==
    /\ last.op = "save_radial_menu" /\ ~last.res.ok
    /\ ParentNode(last.path).k = "none"
    /\ Node(Resolve(last.path)).k = "none"

\* C9: after two interleaved saves of D1 and D2 to one path have both
\* returned Ok, a load of the path succeeds and returns D1 or D2.
C9_ConcurrentSaves ==
    (/\ req[1].pc = "done" /\ req[2].pc = "done"
     /\ req[1].path = req[2].path
     /\ last.op = "load_radial_menu" /\ last.path = req[1].path)
    => (last.res.ok /\ last.res.v \in {req[1].doc, req[2].doc})

(***************************************************************************)
(* Claims about the preference store                                       *)
(***************************************************************************)
\* C2 as stated: while nothing but save_radials_directory touches the
\* marker, get_saved_radials_directory returns None before any save and
\* afterwards the trimmed string of the last successful save, whatever that
\* string is.
C2_LastWriteWins ==
    (last.op = "get_saved_radials_directory" /\ ~hist.ext)
    => (/\ last.res.ok
        /\ last.res.v = IF hist.saved THEN Some(Trim(hist.s)) ELSE None)

\* C2 amended: the trimmed last-saved string is returned when it names a
\* path that exists at the time of the call; when it names none, or before
\* any save, the result is None.
C2_LastWriteWinsIfExists ==
    (last.op = "get_saved_radials_directory" /\ ~hist.ext)
    => (/\ last.res.ok
        /\ last.res.v = IF hist.saved /\ PathExists(Trim(hist.s))
                        THEN Some(Trim(hist.s)) ELSE None)

\* After a save of a padded string the trimmed string came back.
C2_Witness ==
    /\ last.op = "get_saved_radials_directory"
    /\ hist.saved /\ ~hist.ext
    /\ hist.s # Trim(hist.s)
    /\ last.res.ok /\ last.res.v = Some(Trim(hist.s))

\* C10: Some(p) is returned only if the marker file exists, p is its
\* trimmed content and p exists; with the marker missing, or its trimmed
\* content naming no existing path, the result is Ok(None).
C10_SomeOnlyIfExists ==
    last.op = "get_saved_radials_directory"
    => LET marker == Node(Resolve(ConfigFile))
       IN  /\ (last.res.ok /\ last.res.v.some)
              => (/\ marker.k = "file"
                  /\ last.res.v.v = Trim(marker.c)
                  /\ PathExists(last.res.v.v))
           /\ (marker.k = "none" \/ (marker.k = "file" /\ ~PathExists(Trim(marker.c))))
              => (last.res.ok /\ last.res.v = None)

\* The marker names a directory that is gone and the answer was Ok(None).
C10_Witness ==
    /\ last.op = "get_saved_radials_directory"
    /\ Node(Resolve(ConfigFile)).k = "file"
    /\ Trim(Node(Resolve(ConfigFile)).c) = A_old
    /\ ~PathExists(A_old)
    /\ last.res.ok /\ last.res.v = None

(***************************************************************************)
(* Claims about the directory listing                                      *)
(***************************************************************************)
Range(xs) == {xs[n] : n \in 1..Len(xs)}
Ascending(xs) == \A a, b \in 1..Len(xs) : a < b => StrLess(xs[a], xs[b])
NameOf(cp) == cp[Len(cp)]

\* The request was a listing of a directory that could be opened.
ListedDir == last.op = "list_json_files" /\ Node(Resolve(last.path)).k = "dir"

\* C3: for a directory all of whose entries can be read, the result is the
\* ascending sequence of the names of its direct entries that have the
\* extension json and are no directories.
C3_ExactlyJsonFiles ==
    (ListedDir /\ Children(Resolve(last.path)) \cap ioErr = {})
    => (/\ last.res.ok
        /\ Ascending(last.res.v)
        /\ Range(last.res.v) =
              {NameOf(cp) : cp \in {c \in Children(Resolve(last.path)) :
                                       Node(c).k # "dir" /\ Extension(NameOf(c)) = Some(X_json)}})

\* C8 as stated: with an entry that cannot be read the listing is an error.
C8_AbortsOnUnreadable ==
    (ListedDir /\ Children(Resolve(last.path)) \cap ioErr # {}) => ~last.res.ok

\* C8 amended: an entry that cannot be read is skipped.  The listing of a
\* directory that can be opened succeeds and is the ascending sequence of
\* the names of the readable entries with the extension json.
C8_SkipsUnreadable ==
    ListedDir
    => (/\ last.res.ok
        /\ Ascending(last.res.v)
        /\ Range(last.res.v) =
              {NameOf(cp) : cp \in {c \in Children(Resolve(last.path)) \ ioErr :
                                       Extension(NameOf(c)) = Some(X_json)}})

\* A listing left out an unreadable a.json and returned B.json.
C8_Witness ==
    /\ ListedDir
    /\ P_a \in ioErr
    /\ last.res.ok /\ last.res.v = <<N_B_json>>

(***************************************************************************)
(* Claims about the command catalog                                        *)
(***************************************************************************)
\* The text of a file that can be read is a JSON object of strings.
Usable(path) ==
    /\ ReadToString(path).ok
    /\ LET r == ParseJson(ReadToString(path).v)
       IN  r.ok /\ r.v.t = "obj" /\ \A n \in 1..Len(r.v.e) : r.v.e[n].v.t = "str"

\* The catalog such a text denotes: every key with the value written last.
CatalogOf(path) ==
    LET e == ParseJson(ReadToString(path).v).v.e
    IN  [key \in {e[n].k : n \in 1..Len(e)} |->
            e[CHOOSE n \in 1..Len(e) :
                 e[n].k = key /\ \A m \in 1..Len(e) : e[m].k = key => m <= n].v.s]

\* C4: load_commands succeeds with the catalog of the first candidate, in
\* the order of possible_paths, that can be read and parses as a catalog,
\* and with the fallback catalog when there is none.
C4_FirstUsableCandidate ==
    last.op = "load_commands"
    => LET usable == {n \in 1..Len(possible_paths) : Usable(possible_paths[n])}
       IN  /\ last.res.ok
           /\ last.res.v = IF usable = {} THEN Fallback
                           ELSE CatalogOf(possible_paths[CHOOSE n \in usable :
                                                            \A m \in usable : n <= m])

\* dist/commands.json is cut short, ../dist/commands.json is no catalog and
\* the catalog of commands.json was returned.
C4_Witness ==
    /\ last.op = "load_commands"
    /\ Node(P_cat_dist) = FileNode(Cat_cut)
    /\ Node(P_cat_up) = FileNode(Cat_num)
    /\ Node(P_cat_cwd) = FileNode(Cat_cd)
    /\ last.res.ok /\ last.res.v = (<<"c">> :> <<"d">>)

\* C5: on a file that can be read and holds no valid JSON the call fails
\* with the parse error, not with the read error.
C5_ParseErrorNotReadError ==
    (/\ last.op = "load_commands_from_file"
     /\ ReadToString(last.path).ok
     /\ ~ParseJson(ReadToString(last.path).v).ok)
    => (~last.res.ok /\ last.res.v = "Failed to parse commands file")

\* The file read was cut short and the parse error came back.
C5_Witness ==
    /\ last.op = "load_commands_from_file"
    /\ Node(Resolve(last.path)) = FileNode(Cat_cut)
    /\ ~last.res.ok /\ last.res.v = "Failed to parse commands file"

\* C6 as stated: every file that can be read and holds valid JSON loads.
C6_AnyJsonSucceeds ==
    (/\ last.op = "load_commands_from_file"
     /\ ReadToString(last.path).ok
     /\ ParseJson(ReadToString(last.path).v).ok)
    => last.res.ok

\* C6 amended: the call fails with the read error on a path that cannot be
\* read, succeeds with the catalog on a JSON object all of whose values are
\* strings, and fails with the parse error on every other text, valid JSON
\* of another shape included.
C6_StringMapsSucceed ==
    last.op = "load_commands_from_file"
    => IF ~ReadToString(last.path).ok
       THEN ~last.res.ok /\ last.res.v = "Failed to read file"
       ELSE IF Usable(last.path)
       THEN last.res.ok /\ last.res.v = CatalogOf(last.path)
       ELSE ~last.res.ok /\ last.res.v = "Failed to parse commands file"

\* Valid JSON with a number as a value was refused with the parse error.
C6_Witness ==
    /\ last.op = "load_commands_from_file"
    /\ Node(Resolve(last.path)) = FileNode(Cat_num)
    /\ ParseJson(Cat_num).ok
    /\ ~last.res.ok /\ last.res.v = "Failed to parse commands file"

====
